---- MODULE Spec2Model ----
(***************************************************************************)
(* job_watcher.py: polling of job-posting providers, deduplication against *)
(* the sqlite table "seen", keyword/location filtering and the e-mail      *)
(* digest.                                                                 *)
(*                                                                         *)
(* Strings are sequences of one-character strings.  A field that is absent *)
(* from a feed entry / HTML container / JSON object is the value Missing.  *)
(* The field `published` of a record is copied by the adapters and read by *)
(* nothing; the records of the model do not carry it.  time.sleep(0.1)     *)
(* changes no state.  A generator is consumed item by item: the response   *)
(* is fixed when it is fetched, the model draws each of its items when the *)
(* generator reaches it.                                                   *)
(*                                                                         *)
(* Spec        one run of main() over a provider list and a seen table     *)
(* SpecStore   any sequence of is_seen / mark_seen calls on the table      *)
(* SpecFilter  matches_filters applied to a job and a filter configuration *)
(***************************************************************************)
EXTENDS Integers, Sequences, FiniteSets, TLC

VARIABLES
    cfg,          \* main: filter part of the loaded configuration
    providers,    \* main: cfg["providers"], a sequence of [type, url]
    store,        \* rows of table seen(id, title, url, source, first_seen_utc)
    store0,       \* the table as it was when the run started (history)
    now,          \* the UTC clock read by mark_seen
    pc,           \* main: "providers" (the for loop), "done", "failed"
    idx,          \* main: position of the for loop in the provider list
    gen,          \* main: the generator fetch_provider(provider) being consumed
    taken,        \* raw items the responses of this run have delivered so far
    new_matches,  \* main: the list new_matches
    stdout,       \* lines printed by main
    outbox,       \* calls of send_email: [count, body]
    processed,    \* history: records that reached the loop body, in order
    runlog,       \* history: one entry per provider the loop has entered
    op,           \* store specification: the last store operation and its result
    fin           \* filter specification: job, configuration and result

vars == <<cfg, providers, store, store0, now, pc, idx, gen, taken, new_matches,
          stdout, outbox, processed, runlog, op, fin>>

mainVars == <<cfg, providers, store0, pc, idx, gen, taken, new_matches,
              stdout, outbox, processed, runlog>>

-----------------------------------------------------------------------------
(* Bounds of the model *)

MaxProviders == 2   \* providers in the configuration
MaxRecords == 2     \* raw items delivered by all responses of one run
MaxClock == 3       \* mark_seen calls in the store specification
MaxKw == 4          \* keywords in one filter configuration, over all five lists

-----------------------------------------------------------------------------
(* Helpers: text *)

Missing == <<"<missing>">>
EmptyStr == <<>>

Whitespace == {" ", "\t", "\n"}

\* str.lower(), one character
LowerChar(c) ==
    CASE c = "A" -> "a"
      [] c = "B" -> "b"
      [] c = "U" -> "u"
      [] c = "V" -> "v"
      [] OTHER -> c

\* str.lower()
Lower(s) == [i \in 1..Len(s) |-> LowerChar(s[i])]

\* Python's `k in text` for strings
Contains(text, k) ==
    \E i \in 0..(Len(text) - Len(k)) : SubSeq(text, i + 1, i + Len(k)) = k

StartsWith(s, p) == Len(s) >= Len(p) /\ SubSeq(s, 1, Len(p)) = p

\* Python's `a or b` on strings: None and "" are falsy
Truthy(s) == s # Missing /\ s # EmptyStr
OrElse(a, b) == IF Truthy(a) THEN a ELSE b

\* getattr(e, name, "") and dict.get(name, "")
GetOr(field, default) == IF field = Missing THEN default ELSE field

RECURSIVE DropLeadingWs(_)
DropLeadingWs(s) ==
    IF s # <<>> /\ Head(s) \in Whitespace THEN DropLeadingWs(Tail(s)) ELSE s

RECURSIVE DropTrailingWs(_)
DropTrailingWs(s) ==
    IF s # <<>> /\ s[Len(s)] \in Whitespace
    THEN DropTrailingWs(SubSeq(s, 1, Len(s) - 1))
    ELSE s

\* re.sub(r"\s+", " ", s)
RECURSIVE CollapseWs(_)
CollapseWs(s) ==
    IF s = <<>> THEN <<>>
    ELSE IF Head(s) \in Whitespace
         THEN <<" ">> \o CollapseWs(DropLeadingWs(Tail(s)))
         ELSE <<Head(s)>> \o CollapseWs(Tail(s))

\* str.strip()
Strip(s) == DropTrailingWs(DropLeadingWs(s))

normspace(s) == Strip(CollapseWs(OrElse(s, EmptyStr)))

\* hashlib.sha1(text).hexdigest(): a digest is determined by the bytes hashed
\* and two different strings of the model never share one.
sha1(text) == [sha1 |-> text]

-----------------------------------------------------------------------------
(* Persistence *)

Ids(table) == {r.id : r \in table}

\* A lookup that never finds the key
is_seen_blind(table, key) == FALSE
\* SELECT 1 FROM seen WHERE id=?  ... fetchone() is not None
is_seen(table, key) == \E r \in table : r.id = key

\* INSERT OR REPLACE: what the statement would do with the other conflict clause
InsertOrReplace(table, row) == {r \in table : r.id # row.id} \cup {row}
\* INSERT OR IGNORE INTO seen ... with id the PRIMARY KEY
InsertOrIgnore(table, row) ==
    IF \E r \in table : r.id = row.id THEN table ELSE table \cup {row}

mark_seen(table, key, title, url, source, clock) ==
    InsertOrIgnore(table, [id |-> key, title |-> title, url |-> url,
                           source |-> source, first_seen_utc |-> clock])

-----------------------------------------------------------------------------
(* Filtering *)

\* _lower_list: [v.lower() for v in values] if values else []
lower_list(values) == [i \in 1..Len(values) |-> Lower(values[i])]

\* any(k in text for k in ks)
AnyIn(ks, text) == \E i \in 1..Len(ks) : Contains(text, ks[i])

\* matches_filters without its exclusion step
matches_filters_no_exclude(job, c) ==
    LET text == Lower(job.title \o <<"\n">> \o job.summary)
        inc == lower_list(c.include_keywords)
        levels == lower_list(c.level_keywords)
        skills == lower_list(c.skill_keywords)
        locations == lower_list(c.locations)
        url == Lower(OrElse(job.url, EmptyStr))
    IN  IF (levels # <<>> \/ skills # <<>>) /\ levels # <<>> /\ ~AnyIn(levels, text)
        THEN FALSE
        ELSE IF (levels # <<>> \/ skills # <<>>) /\ skills # <<>> /\ ~AnyIn(skills, text)
        THEN FALSE
        ELSE IF ~(levels # <<>> \/ skills # <<>>) /\ inc # <<>> /\ ~AnyIn(inc, text)
        THEN FALSE
        ELSE IF locations # <<>>
                /\ ~\E i \in 1..Len(locations) :
                       Contains(text, locations[i]) \/ Contains(url, locations[i])
        THEN FALSE
        ELSE TRUE

\* matches_filters: each `return False` is one THEN FALSE, in the code's order
matches_filters(job, c) ==
    LET text == Lower(job.title \o <<"\n">> \o job.summary)
        inc == lower_list(c.include_keywords)
        exc == lower_list(c.exclude_keywords)
        levels == lower_list(c.level_keywords)
        skills == lower_list(c.skill_keywords)
        locations == lower_list(c.locations)
        url == Lower(OrElse(job.url, EmptyStr))
    IN  IF AnyIn(exc, text)
        THEN FALSE
        ELSE IF (levels # <<>> \/ skills # <<>>) /\ levels # <<>> /\ ~AnyIn(levels, text)
        THEN FALSE
        ELSE IF (levels # <<>> \/ skills # <<>>) /\ skills # <<>> /\ ~AnyIn(skills, text)
        THEN FALSE
        ELSE IF ~(levels # <<>> \/ skills # <<>>) /\ inc # <<>> /\ ~AnyIn(inc, text)
        THEN FALSE
        ELSE IF locations # <<>>
                /\ ~\E i \in 1..Len(locations) :
                       Contains(text, locations[i]) \/ Contains(url, locations[i])
        THEN FALSE
        ELSE TRUE

-----------------------------------------------------------------------------
(* Digest *)

build_digest_html(jobs) ==
    IF jobs = <<>>
    THEN <<[notice |-> "No new matching jobs."]>>
    ELSE [i \in 1..Len(jobs) |->
            [href |-> jobs[i].url, text |-> jobs[i].title, caption |-> jobs[i].source]]

-----------------------------------------------------------------------------
(* Fetchers: what one adapter makes of one raw item of the response *)

\* The part of the provider URL that urljoin keeps for a site-relative link:
\* everything before the first "/" (provider URLs are written origin/path,
\* raw links of the model never start with "//").
RECURSIVE Origin(_)
Origin(url) ==
    IF url = <<>> \/ Head(url) = "/" THEN <<>> ELSE <<Head(url)>> \o Origin(Tail(url))

urljoin(base, href) == Origin(base) \o href

fetch_rss(url, e) ==
    [title |-> normspace(GetOr(e.title, EmptyStr)),
     url |-> GetOr(e.link, EmptyStr),
     summary |-> normspace(GetOr(e.summary, EmptyStr)),
     source |-> url]

\* `if not title_el or not url_el: continue`
html_emits(item) == item.title # Missing /\ item.link # Missing

fetch_html(url, item) ==
    [title |-> normspace(item.title),
     url |-> IF Truthy(item.link) /\ StartsWith(item.link, <<"/">>)
             THEN urljoin(url, item.link)
             ELSE item.link,
     summary |-> EmptyStr,
     source |-> url]

\* greenhouse: title/absolute_url/content; lever: text/hostedUrl/descriptionPlain
fetch_json(api, job) ==
    [title |-> normspace(GetOr(job.title, EmptyStr)),
     url |-> GetOr(job.link, EmptyStr),
     summary |-> normspace(GetOr(job.summary, EmptyStr)),
     source |-> api]

\* A dispatcher whose first branch tests for "feed"
AdapterOf_feed(ptype) ==
    CASE ptype = "feed" -> "rss"
      [] ptype = "html" -> "html"
      [] ptype = "greenhouse" -> "greenhouse"
      [] ptype = "lever" -> "lever"
      [] OTHER -> "none"
\* The if/elif chain of fetch_provider: the adapter a type value selects
AdapterOf(ptype) ==
    CASE ptype = "rss" -> "rss"
      [] ptype = "html" -> "html"
      [] ptype = "greenhouse" -> "greenhouse"
      [] ptype = "lever" -> "lever"
      [] OTHER -> "none"

\* Response.raise_for_status(): HTTPError for 4xx and 5xx
raise_for_status(status) == status >= 400 /\ status < 600

NetAdapters == {"html", "greenhouse", "lever"}

\* What the first resumption of the generator does before its first yield, for
\* a response w = [net, status, body].  "" is no exception.
FetchError(adapter, w) ==
    CASE adapter = "none" -> "ValueError"
      [] adapter = "rss" -> ""
      [] adapter = "html" ->
            IF w.net = "error" THEN "ConnectionError"
            ELSE IF raise_for_status(w.status) THEN "HTTPError"
            ELSE ""
      [] adapter = "greenhouse" ->
            IF w.net = "error" THEN "ConnectionError"
            ELSE IF w.body = "text" THEN "JSONDecodeError"
            ELSE IF w.body = "list" THEN "AttributeError"
            ELSE ""
      [] adapter = "lever" ->
            IF w.net = "error" THEN "ConnectionError"
            ELSE IF w.body = "text" THEN "JSONDecodeError"
            ELSE ""

\* What the generator iterates over once the fetch succeeded
IterOf(adapter, w) ==
    CASE adapter = "rss" -> "entries"
      [] adapter = "html" -> "items"
      [] adapter = "greenhouse" -> "jobs"
      [] adapter = "lever" -> IF w.body = "dict" THEN "keys" ELSE "jobs"
      [] OTHER -> "none"

-----------------------------------------------------------------------------
(* The inputs of a run *)

\* Raw items a feed, page or API may deliver (title, link, summary as found)
RawEntries ==
    { [title |-> <<"a">>, link |-> <<"u">>, summary |-> EmptyStr],
      [title |-> <<"u">>, link |-> Missing, summary |-> <<"B">>],
      [title |-> <<"B", " ", " ", "a">>, link |-> <<"/", "v">>, summary |-> EmptyStr],
      [title |-> <<" ">>, link |-> EmptyStr, summary |-> EmptyStr] }

\* An element of a JSON array (or a key of a JSON object) that is no object
NotADict == [title |-> Missing, link |-> Missing, summary |-> <<"<not a dict>">>]

ProviderTypes == {"rss", "html", "greenhouse", "lever", "feed"}

ProviderUrl(ptype) ==
    CASE ptype = "rss" -> <<"h", "/", "r">>
      [] ptype = "html" -> <<"h", "/", "p">>
      [] ptype = "greenhouse" -> <<"g", "/", "j">>
      [] ptype = "lever" -> <<"l", "/", "j">>
      [] OTHER -> <<"h", "/", "f">>

Catalogue == {[type |-> t, url |-> ProviderUrl(t)] : t \in ProviderTypes}

\* cfg["providers"]: up to MaxProviders providers, each listed once
ProviderLists ==
    UNION { {f \in [1..n -> Catalogue] : \A i, j \in 1..n : i # j => f[i] # f[j]} :
            n \in 0..MaxProviders }

NoFilter ==
    [include_keywords |-> <<>>, exclude_keywords |-> <<>>, level_keywords |-> <<>>,
     skill_keywords |-> <<>>, locations |-> <<>>]

\* One filter that some records of RawEntries pass and some fail
MainCfgs == { [NoFilter EXCEPT !.skill_keywords = <<<<"A">>>>] }

\* What earlier runs may have left in the table
InitialStores ==
    { {},
      {[id |-> sha1(<<"u">>), title |-> <<"old">>, url |-> <<"u">>,
        source |-> <<"h", "/", "r">>, first_seen_utc |-> 0]} }

Statuses == {200, 404}

Responses == [net : {"ok", "error"}, status : Statuses, body : {"text", "dict", "list"}]

NoGen == [adapter |-> "none", iter |-> "none"]

\* The raw items the open generator may meet next
RawItems(g) ==
    CASE g.iter = "keys" -> {NotADict}
      [] g.iter = "jobs" -> RawEntries \cup {NotADict}
      [] OTHER -> RawEntries

Init ==
    /\ cfg \in MainCfgs
    /\ providers \in ProviderLists
    /\ store \in InitialStores
    /\ store0 = store
    /\ now = 1
    /\ pc = "providers"
    /\ idx = 1
    /\ gen = NoGen
    /\ taken = 0
    /\ new_matches = <<>>
    /\ stdout = <<>>
    /\ outbox = <<>>
    /\ processed = <<>>
    /\ runlog = <<>>
    /\ op = [name |-> "none"]
    /\ fin = [state |-> "idle"]

-----------------------------------------------------------------------------
(* main *)

SetLast(log, field, value) == [log EXCEPT ![Len(log)][field] = value]

\* A loop without the try/except: the exception leaves main
ProviderError_abort(kind, log) ==
    /\ runlog' = SetLast(log, "err", kind)
    /\ pc' = "failed"
    /\ gen' = NoGen
    /\ UNCHANGED <<cfg, providers, store, store0, now, idx, new_matches,
                   stdout, outbox, processed, op, fin>>
\* except Exception as e: print("Provider error: ..."); the loop goes on.
\* (taken, the count of raw items delivered, is set by the action that raises.)
ProviderError(kind, log) ==
    /\ runlog' = SetLast(log, "err", kind)
    /\ stdout' = Append(stdout, [provider |-> providers[idx].url, error |-> kind])
    /\ idx' = idx + 1
    /\ gen' = NoGen
    /\ UNCHANGED <<cfg, providers, store, store0, now, pc, new_matches,
                   outbox, processed, op, fin>>

\* for provider in cfg.get("providers", []): the first resumption of
\* fetch_provider(provider), up to the point where it iterates over a response
StartProvider ==
    /\ pc = "providers"
    /\ gen = NoGen
    /\ idx <= Len(providers)
    /\ \E w \in Responses :
         LET adapter == AdapterOf(providers[idx].type)
             err == FetchError(adapter, w)
             entry == [i |-> idx, adapter |-> adapter,
                       status |-> IF adapter \in NetAdapters /\ w.net = "ok"
                                  THEN w.status ELSE 0,
                       nrec |-> 0, err |-> "", ended |-> FALSE]
         IN  IF err # ""
             THEN /\ taken' = taken
                  /\ ProviderError(err, Append(runlog, entry))
             ELSE /\ gen' = [adapter |-> adapter, iter |-> IterOf(adapter, w)]
                  /\ runlog' = Append(runlog, entry)
                  /\ UNCHANGED <<cfg, providers, store, store0, now, pc, idx, taken,
                                 new_matches, stdout, outbox, processed, op, fin>>

\* The record the open generator yields for a raw item
Yielded(g, provider, item) ==
    CASE g.adapter = "rss" -> fetch_rss(provider.url, item)
      [] g.adapter = "html" -> fetch_html(provider.url, item)
      [] OTHER -> fetch_json(provider.url, item)

DedupKey(job) == sha1(OrElse(job.url, job.title))

\* A loop body that never calls mark_seen
LoopBody_no_mark(job) ==
    LET key == DedupKey(job)
        seen == is_seen(store, key)
    IN  /\ new_matches' = IF ~seen /\ matches_filters(job, cfg)
                          THEN Append(new_matches, job) ELSE new_matches
        /\ store' = store
        /\ now' = now
        /\ processed' = Append(processed, [job |-> job, key |-> key,
                                           known |-> key \in Ids(store)])
        /\ runlog' = SetLast(runlog, "nrec", runlog[Len(runlog)].nrec + 1)
        /\ taken' = taken + 1
        /\ UNCHANGED <<cfg, providers, store0, pc, idx, gen, stdout, outbox, op, fin>>
\* A loop body with mark_seen inside `if matches_filters(job, cfg):`
LoopBody_mark_matching(job) ==
    LET key == DedupKey(job)
        seen == is_seen(store, key)
        hit == ~seen /\ matches_filters(job, cfg)
    IN  /\ new_matches' = IF hit THEN Append(new_matches, job) ELSE new_matches
        /\ store' = IF ~hit THEN store
                    ELSE mark_seen(store, key, job.title, job.url, job.source, now)
        /\ now' = IF ~hit THEN now ELSE now + 1
        /\ processed' = Append(processed, [job |-> job, key |-> key,
                                           known |-> key \in Ids(store)])
        /\ runlog' = SetLast(runlog, "nrec", runlog[Len(runlog)].nrec + 1)
        /\ taken' = taken + 1
        /\ UNCHANGED <<cfg, providers, store0, pc, idx, gen, stdout, outbox, op, fin>>
\* The body of `for job in fetch_provider(provider)`
LoopBody(job) ==
    LET key == DedupKey(job)
        seen == is_seen(store, key)
    IN  /\ new_matches' = IF ~seen /\ matches_filters(job, cfg)
                          THEN Append(new_matches, job) ELSE new_matches
        /\ store' = IF seen THEN store
                    ELSE mark_seen(store, key, job.title, job.url, job.source, now)
        /\ now' = IF seen THEN now ELSE now + 1
        /\ processed' = Append(processed, [job |-> job, key |-> key,
                                           known |-> key \in Ids(store)])
        /\ runlog' = SetLast(runlog, "nrec", runlog[Len(runlog)].nrec + 1)
        /\ taken' = taken + 1
        /\ UNCHANGED <<cfg, providers, store0, pc, idx, gen, stdout, outbox, op, fin>>

\* The generator is resumed and meets the next raw item of the response
NextItem ==
    /\ pc = "providers"
    /\ gen # NoGen
    /\ taken < MaxRecords
    /\ \E item \in RawItems(gen) :
         IF item = NotADict
         THEN /\ taken' = taken + 1
              /\ ProviderError("AttributeError", runlog)
         ELSE IF gen.adapter = "html" /\ ~html_emits(item)
         THEN /\ taken' = taken + 1
              /\ UNCHANGED <<cfg, providers, store, store0, now, pc, idx, gen,
                             new_matches, stdout, outbox, processed, runlog, op, fin>>
         ELSE LoopBody(Yielded(gen, providers[idx], item))

\* The response is exhausted: StopIteration ends the inner for loop
EndOfItems ==
    /\ pc = "providers"
    /\ gen # NoGen
    /\ gen' = NoGen
    /\ idx' = idx + 1
    /\ runlog' = SetLast(runlog, "ended", TRUE)
    /\ UNCHANGED <<cfg, providers, store, store0, now, pc, taken, new_matches,
                   stdout, outbox, processed, op, fin>>

\* Sending the digest whatever the list holds
ShouldNotify_always(matches) == TRUE
\* `if new_matches:`
ShouldNotify(matches) == matches # <<>>

\* After the loop: build the digest and call send_email, which may raise
Finish ==
    /\ pc = "providers"
    /\ gen = NoGen
    /\ idx > Len(providers)
    /\ IF ShouldNotify(new_matches)
       THEN /\ outbox' = Append(outbox, [count |-> Len(new_matches),
                                         body |-> build_digest_html(new_matches)])
            /\ \E smtp \in {"ok", "error"} :
                 IF smtp = "ok"
                 THEN /\ pc' = "done"
                      /\ stdout' = Append(stdout, [emailed |-> Len(new_matches)])
                 ELSE /\ pc' = "failed"
                      /\ stdout' = stdout
       ELSE /\ pc' = "done"
            /\ UNCHANGED <<outbox, stdout>>
    /\ UNCHANGED <<cfg, providers, store, store0, now, idx, gen, taken, new_matches,
                   processed, runlog, op, fin>>

Next == StartProvider \/ NextItem \/ EndOfItems \/ Finish

Spec == Init /\ [][Next]_vars

-----------------------------------------------------------------------------
(* The dedup store on its own: any sequence of is_seen and mark_seen calls *)

IdleMain ==
    /\ cfg = NoFilter
    /\ providers = <<>>
    /\ store0 = {}
    /\ pc = "idle"
    /\ idx = 1
    /\ gen = NoGen
    /\ taken = 0
    /\ new_matches = <<>>
    /\ stdout = <<>>
    /\ outbox = <<>>
    /\ processed = <<>>
    /\ runlog = <<>>

StoreKeys == {sha1(<<"u">>), sha1(<<"v">>)}
StoreTitles == {<<"a">>, <<"B">>}
StoreUrls == {<<"u">>, EmptyStr}
StoreSources == {<<"h", "/", "r">>}

\* ensure_db() on a fresh file: the table exists and is empty
InitStore ==
    /\ IdleMain
    /\ store = {}
    /\ now = 1
    /\ op = [name |-> "none"]
    /\ fin = [state |-> "idle"]

MarkSeenOp ==
    /\ now <= MaxClock
    /\ \E key \in StoreKeys, title \in StoreTitles, url \in StoreUrls,
          source \in StoreSources :
         /\ store' = mark_seen(store, key, title, url, source, now)
         /\ op' = [name |-> "mark_seen", key |-> key, title |-> title, url |-> url,
                   present |-> key \in Ids(store)]
    /\ now' = now + 1
    /\ UNCHANGED <<mainVars, fin>>

IsSeenOp ==
    /\ \E key \in StoreKeys :
         op' = [name |-> "is_seen", key |-> key, result |-> is_seen(store, key)]
    /\ UNCHANGED <<mainVars, store, now, fin>>

NextStore == MarkSeenOp \/ IsSeenOp

SpecStore == InitStore /\ [][NextStore]_vars

-----------------------------------------------------------------------------
(* The filter on its own: matches_filters over jobs and configurations *)

Keywords == {<<"a">>, <<"B">>, <<"a", "b">>}

FilterJobs ==
    [title : {EmptyStr, <<"A">>, <<"a", "B">>},
     summary : {EmptyStr, <<"b">>},
     url : {EmptyStr, <<"B">>},
     source : {<<"h", "/", "r">>}]

InitFilter ==
    /\ IdleMain
    /\ store = {}
    /\ now = 1
    /\ op = [name |-> "none"]
    /\ \E lens \in [1..5 -> 0..MaxKw] :
         /\ lens[1] + lens[2] + lens[3] + lens[4] + lens[5] <= MaxKw
         /\ \E inc \in [1..lens[1] -> Keywords], exc \in [1..lens[2] -> Keywords],
               lev \in [1..lens[3] -> Keywords], ski \in [1..lens[4] -> Keywords],
               loc \in [1..lens[5] -> Keywords], job \in FilterJobs :
              fin = [state |-> "input", job |-> job,
                     cfg |-> [include_keywords |-> inc, exclude_keywords |-> exc,
                              level_keywords |-> lev, skill_keywords |-> ski,
                              locations |-> loc]]

EvalFilter ==
    /\ fin.state = "input"
    /\ fin' = [state |-> "result", job |-> fin.job, cfg |-> fin.cfg,
               result |-> matches_filters(fin.job, fin.cfg)]
    /\ UNCHANGED <<mainVars, store, now, op>>

NextFilter == EvalFilter

SpecFilter == InitFilter /\ [][NextFilter]_vars

-----------------------------------------------------------------------------
(* Properties *)

Range(f) == {f[i] : i \in DOMAIN f}
Ended == pc \in {"done", "failed"}
JobsOf(entries) == [i \in 1..Len(entries) |-> entries[i].job]
IsFreshMatch(e) == ~e.known /\ matches_filters(e.job, cfg)
HasTitleOrUrl(job) == Truthy(job.title) \/ Truthy(job.url)
Failed(e) == e.err # ""

\* C1: the match list (and the digest built from it) holds exactly the records
\* that reached the loop body while their key was absent from the store and
\* that pass matches_filters, in the order produced; no record whose key was
\* in the store when the run started is ever in it.
C1_MatchListExact ==
    /\ new_matches = JobsOf(SelectSeq(processed, IsFreshMatch))
    /\ \A i \in 1..Len(new_matches) : DedupKey(new_matches[i]) \notin Ids(store0)
    /\ \A i \in 1..Len(outbox) : outbox[i].body = build_digest_html(new_matches)

\* The end-to-end scenario: one record is new and matches, another matches too
\* but was marked seen by an earlier run; only the first is in the digest.
C1_Witness ==
    /\ pc = "done"
    /\ Len(new_matches) = 1
    /\ Len(outbox) = 1
    /\ \E i \in 1..Len(processed) :
         /\ processed[i].key \in Ids(store0)
         /\ matches_filters(processed[i].job, cfg)

\* C2: every record that reached the loop body has its dedup key in the store
\* from then on (so also when the run has ended), and a record whose key was
\* absent is stored with its own title, url and source, whether or not it
\* passes the filter.
C2_AllProducedMarked ==
    \A i \in 1..Len(processed) :
        LET e == processed[i]
        IN  /\ e.key \in Ids(store)
            /\ ~e.known =>
                 \E r \in store : /\ r.id = e.key
                                  /\ r.title = e.job.title
                                  /\ r.url = e.job.url
                                  /\ r.source = e.job.source

\* A run has ended in which a new record failed the filter and is in the store.
C2_Witness ==
    /\ Ended
    /\ \E i \in 1..Len(processed) :
         /\ ~processed[i].known
         /\ ~matches_filters(processed[i].job, cfg)
         /\ processed[i].key \in Ids(store) \ Ids(store0)

\* C3: a provider's failure never ends the run: the loop enters the providers
\* one by one in configured order, a run that has ended has entered every
\* configured provider, every failure is printed, and the run fails only in
\* send_email.
C3_FailureIsolated ==
    /\ \A k \in 1..Len(runlog) : runlog[k].i = k
    /\ Len(runlog) <= Len(providers)
    /\ Ended => Len(runlog) = Len(providers)
    /\ pc = "failed" => outbox # <<>>
    /\ Cardinality({k \in 1..Len(runlog) : Failed(runlog[k])})
         = Cardinality({k \in 1..Len(stdout) : "error" \in DOMAIN stdout[k]})

\* The first provider failed, the second one's matching record was mailed.
C3_Witness ==
    /\ pc = "done"
    /\ Len(runlog) = 2
    /\ Failed(runlog[1])
    /\ runlog[2].nrec >= 1
    /\ \E i \in 1..Len(new_matches) : new_matches[i].source = providers[2].url
    /\ Len(outbox) = 1

\* C4: send_email is called at most once, only after every provider has been
\* processed, and a run that has ended has called it iff the match list is
\* non-empty.
C4_NotifyOnce ==
    /\ Len(outbox) <= 1
    /\ outbox # <<>> =>
         /\ Ended
         /\ Len(runlog) = Len(providers)
         /\ \A k \in 1..Len(runlog) : Failed(runlog[k]) \/ runlog[k].ended
         /\ new_matches # <<>>
         /\ outbox[1].count = Len(new_matches)
    /\ Ended => (outbox # <<>> <=> new_matches # <<>>)

\* A run has ended in which records were processed, none passed the filter,
\* and nothing was sent.
C4_Witness ==
    /\ pc = "done"
    /\ \E i \in 1..Len(processed) : ~processed[i].known
    /\ new_matches = <<>>
    /\ outbox = <<>>

\* C7: every record that reaches the dedup stage has a non-empty title or a
\* non-empty url.
C7_TitleOrUrl ==
    \A i \in 1..Len(processed) : HasTitleOrUrl(processed[i].job)

\* C8: a network-backed adapter that received a non-success HTTP status yields
\* no record and does not end normally: it ends as a failure of that provider.
C8_NonSuccessFails ==
    \A k \in 1..Len(runlog) :
        (runlog[k].adapter \in NetAdapters /\ raise_for_status(runlog[k].status))
            => (runlog[k].nrec = 0 /\ ~runlog[k].ended)

SpecTypes == {"feed", "html", "greenhouse", "lever"}
CodeTypes == {"rss", "html", "greenhouse", "lever"}

\* Adapter selection over the closed set `types`: a provider of one of these
\* types is dispatched to its adapter, any other fails at selection, before
\* any record, and the failure stays with that provider.
ClosedSet(types) ==
    /\ \A k \in 1..Len(runlog) :
         LET e == runlog[k]
             t == providers[e.i].type
         IN  IF t \in types
             THEN e.adapter # "none" /\ e.err # "ValueError"
             ELSE e.adapter = "none" /\ e.err = "ValueError" /\ e.nrec = 0
                  /\ (pc = "providers" => idx > e.i)
    /\ pc = "failed" => outbox # <<>>

\* C9 as stated: the closed set is feed, html, greenhouse, lever.
C9_ClosedSetFeed == ClosedSet(SpecTypes)

\* C9 as amended: the closed set is rss, html, greenhouse, lever.
C9_ClosedSetRss == ClosedSet(CodeTypes)

\* A provider of type feed failed at selection, the next provider, of type
\* rss, was dispatched and its record processed, and the run ended normally.
C9_Witness ==
    /\ pc = "done"
    /\ Len(runlog) = 2
    /\ providers[1].type = "feed" /\ runlog[1].err = "ValueError"
    /\ providers[2].type = "rss" /\ runlog[2].adapter = "rss" /\ runlog[2].nrec >= 1

\* C10: no two records of the match list have the same dedup key.
C10_NoDuplicateKeys ==
    \A i, j \in 1..Len(new_matches) :
        i # j => DedupKey(new_matches[i]) # DedupKey(new_matches[j])

\* The same posting came from two different providers in one run; the first
\* sighting is in the match list and the second was skipped.
C10_Witness ==
    /\ Len(new_matches) = 1
    /\ Len(processed) = 2
    /\ processed[1].key = processed[2].key
    /\ processed[1].job.source # processed[2].job.source
    /\ ~processed[1].known
    /\ matches_filters(processed[2].job, cfg)

\* C5: the table holds at most one row per id, a row once present is never
\* changed or removed, and mark_seen on a key that is present leaves the table
\* as it was.
C5_InsertIfAbsent ==
    /\ [](\A r1, r2 \in store : r1.id = r2.id => r1 = r2)
    /\ [][\A r \in store : r \in store']_vars
    /\ [][(op'.name = "mark_seen" /\ op'.key \in Ids(store)) => store' = store]_vars

\* mark_seen was called with a key that was present, with another title and
\* at a later time than the row's.
C5_Witness ==
    /\ op.name = "mark_seen"
    /\ op.present
    /\ \E r \in store : r.id = op.key /\ r.title # op.title /\ r.first_seen_utc < now - 1

\* The three steps of the filter, keywords compared case-insensitively
FilterText(job) == Lower(job.title \o <<"\n">> \o job.summary)
Hit(list, hay) == \E k \in Range(list) : Contains(hay, Lower(k))
NotExcluded(job, c) == ~Hit(c.exclude_keywords, FilterText(job))
Included(job, c) ==
    IF c.level_keywords # <<>> \/ c.skill_keywords # <<>>
    THEN /\ c.level_keywords = <<>> \/ Hit(c.level_keywords, FilterText(job))
         /\ c.skill_keywords = <<>> \/ Hit(c.skill_keywords, FilterText(job))
    ELSE c.include_keywords = <<>> \/ Hit(c.include_keywords, FilterText(job))
Located(job, c) ==
    \/ c.locations = <<>>
    \/ \E k \in Range(c.locations) :
         Contains(FilterText(job), Lower(k)) \/ Contains(Lower(job.url), Lower(k))

====
